---------------------------- MODULE Spec2Model ----------------------------
(***************************************************************************)
(* A model of weather_app.py: the moon-phase calculation, location         *)
(* resolution, the radar-station cache and nearest-station selection, and  *)
(* the sequencing of the four reports by the main block.                   *)
(*                                                                         *)
(* Numbers.  Coordinates are Python floats; here a coordinate is an        *)
(* integer number of tenths of a degree (40.0 is 400).  The moon-phase     *)
(* arithmetic is carried out on exact integers: jd in days is held in      *)
(* hundredths, and after the division by 29.53 as a numerator over 2953.   *)
(***************************************************************************)
EXTENDS Integers, Sequences, FiniteSets, TLC

VARIABLES
  \* moon_phase
  date, jd, phase_index, phase,
  \* get_location and the main block
  env, ipReply, ipCalls, loc, locErr, pc, started, out, exitStatus,
  \* the radar-station cache and the radar functions
  cache, requests, calls, last, fetched

moonVars == << date, jd, phase_index, phase >>
mainVars == << env, ipReply, ipCalls, loc, locErr, pc, started, out, exitStatus >>
radarVars == << cache, requests, calls, last, fetched >>
vars == << date, jd, phase_index, phase,
           env, ipReply, ipCalls, loc, locErr, pc, started, out, exitStatus,
           cache, requests, calls, last, fetched >>

None == "None"

-----------------------------------------------------------------------------
(* Bounds of the model *)

\* years modelled from each base year: base .. base + YearSpan
YearSpan == 1
\* longest station catalog
MaxStations == 2
\* number of calls of the radar functions in one behaviour
MaxCalls == 3

-----------------------------------------------------------------------------
(* Python exception classes *)

\* the base classes of each exception class raised in the program
Bases ==
  [ HTTPError        |-> {"HTTPError", "RequestException", "OSError", "Exception"},
    ConnectionError  |-> {"ConnectionError", "RequestException", "OSError", "Exception"},
    RequestException |-> {"RequestException", "OSError", "Exception"},
    JSONDecodeError  |-> {"JSONDecodeError", "ValueError", "Exception"},
    ValueError       |-> {"ValueError", "Exception"},
    KeyError         |-> {"KeyError", "LookupError", "Exception"},
    AttributeError   |-> {"AttributeError", "Exception"},
    TypeError        |-> {"TypeError", "Exception"},
    OSError          |-> {"OSError", "Exception"},
    RuntimeError     |-> {"RuntimeError", "Exception"} ]

\* isinstance(exc, cls), the test an except clause makes
IsInstance(exc, cls) == cls \in Bases[exc]

-----------------------------------------------------------------------------
(* moon_phase *)

\* int(x) for x = n / d, d > 0: truncation toward zero
IntTrunc(n, d) == IF n >= 0 THEN n \div d ELSE -((-n) \div d)

\* round(x) for x = n / d, d > 0: to nearest, ties to even
Round(n, d) ==
  LET q == n \div d
      r == n - q * d
  IN  IF 2 * r < d THEN q
      ELSE IF 2 * r > d THEN q + 1
      ELSE IF q % 2 = 0 THEN q ELSE q + 1

\* jd after line 45 is JdNum(date) / JdDen
JdDen == 2953

JdNum(d) ==
  LET year  == IF d.month < 3 THEN d.year - 1 ELSE d.year
      month == (IF d.month < 3 THEN d.month + 12 ELSE d.month) + 1
  IN  36525 * year + 3060 * month + 100 * d.day - 69403909

\* jd after line 47, as a numerator over JdDen
JdFrac(d) == JdNum(d) - IntTrunc(JdNum(d), JdDen) * JdDen

\* a variant of WrapIndex that lets the index 8 through
WrapIndexOff(i) == IF i > 8 THEN 0 ELSE i

\* lines 49-50
WrapIndex(i) == IF i >= 8 THEN 0 ELSE i

\* lines 48-50
PhaseIndex(d) == WrapIndex(Round(8 * JdFrac(d), JdDen))

phases ==
  << "New Moon", "Waxing Crescent", "First Quarter", "Waxing Gibbous",
     "Full Moon", "Waning Gibbous", "Last Quarter", "Waning Crescent" >>

\* list[i] in Python: 0-based, a negative index counts from the end
PyIndex(list, i) ==
  IF i >= 0 /\ i < Len(list) THEN list[i + 1]
  ELSE IF i < 0 /\ i >= -Len(list) THEN list[Len(list) + i + 1]
  ELSE "IndexError"

IsLeap(y) == (y % 4 = 0 /\ y % 100 # 0) \/ y % 400 = 0

DaysIn(y, m) ==
  IF m = 2 THEN (IF IsLeap(y) THEN 29 ELSE 28)
  ELSE IF m \in {4, 6, 9, 11} THEN 30 ELSE 31

Years == (1899 .. 1899 + YearSpan) \cup (2024 .. 2024 + YearSpan)

Dates ==
  { d \in [year : Years, month : 1 .. 12, day : 1 .. 31] :
      d.day <= DaysIn(d.year, d.month) }

\* moon_phase(date)
MoonPhase ==
  /\ phase = None
  /\ jd' = JdFrac(date)
  /\ phase_index' = PhaseIndex(date)
  /\ phase' = PyIndex(phases, PhaseIndex(date))
  /\ UNCHANGED << date, mainVars, radarVars >>

-----------------------------------------------------------------------------
(* get_location *)

\* values of the LAT and LON environment variables tried
EnvStrings == {"", "abc", "40.0", "-75.0", "91", "180"}

\* float(s) on the strings that parse, in tenths of a degree
FloatValue ==
  ("40.0" :> 400) @@ ("-75.0" :> -750) @@ ("91" :> 910) @@ ("180" :> 1800)

\* float(s) returns (does not raise ValueError)
Parses(s) == s \in DOMAIN FloatValue

\* the truth value of os.getenv(name) in a condition: unset and empty are false
Truthy(v) == v # None /\ v # ""

Envs ==
  [ LAT : {None} \cup EnvStrings, LON : {None} \cup EnvStrings,
    CITY : {None, "Philadelphia"}, REGION : {None, "Pennsylvania"} ]

\* A string holding commas is a sequence of tokens, "," among them.
\* s.split(","): the token sequences between the commas
RECURSIVE Split(_)
Split(s) ==
  IF s = << >> THEN << << >> >>
  ELSE LET rest == Split(Tail(s))
       IN  IF Head(s) = "," THEN << << >> >> \o rest
           ELSE << << Head(s) >> \o Head(rest) >> \o Tail(rest)

\* float(field) returns, for a field of tokens
FieldParses(f) == Len(f) = 1 /\ Parses(f[1])

\* what https://ipinfo.io/json does when asked: a transport failure, an HTTP
\* error status, a body that is not JSON, or a JSON object.  An object is its
\* set of keys and their values; "loc" is a string or null.
Str(toks) == [ type |-> "str", toks |-> toks ]
JsonNull == [ type |-> "null", toks |-> << >> ]

JsonBodies ==
  [ keys : { {"loc", "city", "region"}, {"loc"} },
    loc : { Str(<<"40.0", ",", "-75.0">>), Str(<<"-75.0", ",", "180">>),
            Str(<<"40.0">>), Str(<<"40.0", ",", "-75.0", ",", "91">>),
            Str(<<"abc", ",", "-75.0">>), Str(<<"40.0", ",">>), JsonNull },
    city : {"Trenton"}, region : {"New Jersey"} ]
    \cup [ keys : { {"city", "region"} }, loc : {JsonNull},
           city : {"Trenton"}, region : {"New Jersey"} ]

IpReplies ==
  [ kind : {"ConnectionError", "HTTPError", "JSONDecodeError"} ]
    \cup [ kind : {"json"}, data : JsonBodies ]

\* data.get(key)
DictGet(data, key) == IF key \in data.keys THEN data[key] ELSE None

\* the exception lines 78-82 raise on this reply, or None
IpFailure(reply) ==
  IF reply.kind # "json" THEN reply.kind
  ELSE IF "loc" \notin reply.data.keys THEN "KeyError"
  ELSE IF reply.data.loc.type # "str" THEN "AttributeError"
  ELSE LET fields == Split(reply.data.loc.toks)
       IN  IF Len(fields) # 2 THEN "ValueError"
           ELSE IF \E i \in 1 .. 2 : ~FieldParses(fields[i]) THEN "ValueError"
           ELSE None

\* lines 81-83
IpPoint(reply) ==
  LET fields == Split(reply.data.loc.toks)
  IN  << FloatValue[fields[1][1]], FloatValue[fields[2][1]],
         DictGet(reply.data, "city"), DictGet(reply.data, "region") >>

InvalidText == "Invalid LAT/LON environment variables: "
DetectText == "Error detecting location: "
DetectHint == ". Set LAT and LON environment variables."

\* lines 77-88: the IP lookup branch
IpLookupBranch(reply) ==
  IF IpFailure(reply) = None
  THEN [ ret |-> << IpPoint(reply) >>, exc |-> << >>, ipCalls |-> 1 ]
  ELSE [ ret |-> << >>,
         exc |-> << [ cls |-> "RuntimeError", text |-> DetectText,
                      cause |-> [ cls |-> IpFailure(reply), arg |-> "" ],
                      hint |-> DetectHint ] >>,
         ipCalls |-> 1 ]

\* lines 71-76: the override branch
OverrideBranch(e) ==
  IF Parses(e.LAT) /\ Parses(e.LON)
  THEN [ ret |-> << << FloatValue[e.LAT], FloatValue[e.LON], e.CITY, e.REGION >> >>,
         exc |-> << >>, ipCalls |-> 0 ]
  ELSE [ ret |-> << >>,
         exc |-> << [ cls |-> "RuntimeError", text |-> InvalidText,
                      cause |-> [ cls |-> "ValueError",
                                  arg |-> IF Parses(e.LAT) THEN e.LON ELSE e.LAT ],
                      hint |-> "" ] >>,
         ipCalls |-> 0 ]

\* a variant of get_location that turns to the IP lookup when an override
\* does not parse
GetLocationFallback(e, reply) ==
  IF Truthy(e.LAT) /\ Truthy(e.LON) /\ Parses(e.LAT) /\ Parses(e.LON)
  THEN OverrideBranch(e)
  ELSE IpLookupBranch(reply)

\* a variant of get_location that returns the overrides in the order
\* longitude, latitude
GetLocationSwapped(e, reply) ==
  IF Truthy(e.LAT) /\ Truthy(e.LON)
  THEN LET r == OverrideBranch(e)
       IN  IF r.ret = << >> THEN r
           ELSE [ r EXCEPT !.ret = << << r.ret[1][2], r.ret[1][1],
                                         r.ret[1][3], r.ret[1][4] >> >> ]
  ELSE IpLookupBranch(reply)

\* get_location(), given the environment and the reply ipinfo.io would give
GetLocationResult(e, reply) ==
  IF Truthy(e.LAT) /\ Truthy(e.LON)
  THEN OverrideBranch(e)
  ELSE IpLookupBranch(reply)

-----------------------------------------------------------------------------
(* haversine *)

\* the coordinates (tenths of a degree) that float() yields on EnvStrings
Coords == << -750, 400, 910, 1800 >>

CoordIndex(x) == CHOOSE i \in 1 .. Len(Coords) : Coords[i] = x

PointIndex(lat, lon) == Len(Coords) * (CoordIndex(lat) - 1) + CoordIndex(lon)

\* haversine(lat1, lon1, lat2, lon2) as lines 244-253 compute it in IEEE
\* doubles, tabulated for the points of Coords \X Coords (row: first point,
\* column: second point).  An entry is the position of the computed distance
\* among the distinct distances of the table in ascending order, so that
\* < and = on entries are < and = on the doubles; 0 is 0.0 km.
HaversineRows ==
  <<
     <<  0, 10, 12,  9, 44, 49, 52, 48, 59, 55, 53, 56, 43, 30, 26, 31 >>,
     << 10,  0,  7, 11, 49, 44, 46, 51, 55, 59, 58, 54, 30, 43, 42, 28 >>,
     << 12,  7,  0,  8, 52, 46, 44, 47, 53, 58, 59, 57, 26, 42, 43, 35 >>,
     <<  9, 11,  8,  0, 48, 51, 47, 44, 56, 54, 57, 59, 31, 28, 35, 43 >>,
     << 44, 49, 52, 48,  0, 29, 41, 25, 21, 17, 15, 18, 50, 24, 14, 27 >>,
     << 49, 44, 46, 51, 29,  0, 13, 40, 17, 21, 20, 16, 24, 50, 45, 22 >>,
     << 52, 46, 44, 47, 41, 13,  0, 23, 15, 20, 21, 19, 14, 45, 50, 37 >>,
     << 48, 51, 47, 44, 25, 40, 23,  0, 18, 16, 19, 21, 27, 22, 37, 50 >>,
     << 59, 55, 53, 56, 21, 17, 15, 18,  0,  4,  6,  3, 32, 36, 39, 35 >>,
     << 55, 59, 58, 54, 17, 21, 20, 16,  4,  0,  1,  5, 36, 32, 33, 38 >>,
     << 53, 58, 59, 57, 15, 20, 21, 19,  6,  1,  0,  2, 39, 33, 32, 34 >>,
     << 56, 54, 57, 59, 18, 16, 19, 21,  3,  5,  2,  0, 35, 38, 34, 32 >>,
     << 43, 30, 26, 31, 50, 24, 14, 27, 32, 36, 39, 35,  0, 44, 59, 43 >>,
     << 30, 43, 42, 28, 24, 50, 45, 22, 36, 32, 33, 38, 44,  0, 21, 50 >>,
     << 26, 42, 43, 35, 14, 45, 50, 37, 39, 33, 32, 34, 59, 21,  0, 32 >>,
     << 31, 28, 35, 43, 27, 22, 37, 50, 35, 38, 34, 32, 43, 50, 32,  0 >>
  >>

haversine(lat1, lon1, lat2, lon2) ==
  HaversineRows[PointIndex(lat1, lon1)][PointIndex(lat2, lon2)]

-----------------------------------------------------------------------------
(* load_radar_stations, get_nearest_radar, get_radar_image *)

\* the stations a catalog is made of; two of them stand at the same place
StationPool ==
  { [ id |-> "KDIX", lat |-> 400,  lon |-> -750 ],
    [ id |-> "TPHL", lat |-> 400,  lon |-> -750 ],
    [ id |-> "KBYX", lat |-> 400,  lon |-> 910 ],
    [ id |-> "NZSP", lat |-> -750, lon |-> 400 ] }

RECURSIVE SeqsUpTo(_, _)
SeqsUpTo(S, n) ==
  IF n = 0 THEN { << >> }
  ELSE LET shorter == SeqsUpTo(S, n - 1)
       IN  shorter \cup { Append(q, x) : q \in shorter, x \in S }

Catalogs == SeqsUpTo(StationPool, MaxStations)

\* a feature of the /radar/stations response carrying this station
Feature(st) ==
  [ properties |-> [ id |-> st.id ],
    geometry |-> [ coordinates |-> << st.lon, st.lat >> ] ]

\* what https://api.weather.gov/radar/stations does when asked: a transport
\* failure, an HTTP error status, a JSON body without "features", or a JSON
\* body whose features carry the stations of a catalog
NetReplies ==
  [ kind : {"ConnectionError", "HTTPError", "KeyError"}, catalog : { << >> } ]
    \cup [ kind : {"json"}, catalog : Catalogs ]

\* resp.json()["features"] of a reply of kind "json"
Features(net) == [ i \in 1 .. Len(net.catalog) |-> Feature(net.catalog[i]) ]

\* lines 264-268: coordinates[1] is the latitude, coordinates[0] the longitude
ToStation(f) ==
  [ id |-> f.properties.id,
    lat |-> f.geometry.coordinates[2],
    lon |-> f.geometry.coordinates[1] ]

\* the file radar_stations.json: absent, or holding JSON text, or holding text
\* that is not JSON
NoFile == [ exists |-> FALSE, json |-> FALSE, doc |-> << >> ]
BadFile == [ exists |-> TRUE, json |-> FALSE, doc |-> << >> ]

\* json.dump(stations, f) on a file opened for writing
JsonDump(stations) == [ exists |-> TRUE, json |-> TRUE, doc |-> stations ]

CacheFiles == { NoFile, BadFile } \cup { JsonDump(c) : c \in Catalogs }

\* a variant of load_radar_stations that asks the network although the cache
\* holds a catalog, and that creates the cache file before the reply is checked
LoadRadarStationsEager(c, net) ==
  IF c.exists /\ c.json
  THEN [ ret |-> c.doc, exc |-> None, cache |-> c, requested |-> TRUE ]
  ELSE IF c.exists
  THEN [ ret |-> << >>, exc |-> "JSONDecodeError", cache |-> c, requested |-> FALSE ]
  ELSE IF net.kind # "json"
  THEN [ ret |-> << >>, exc |-> net.kind, cache |-> JsonDump(<< >>), requested |-> TRUE ]
  ELSE LET stations == [ i \in 1 .. Len(net.catalog) |-> ToStation(Features(net)[i]) ]
       IN  [ ret |-> stations, exc |-> None,
             cache |-> JsonDump(stations), requested |-> TRUE ]

\* load_radar_stations(), given the cache file and the reply the network
\* would give: the value returned or the exception raised, the cache file
\* afterwards, and whether the network was asked
LoadRadarStations(c, net) ==
  IF c.exists /\ c.json
  THEN [ ret |-> c.doc, exc |-> None, cache |-> c, requested |-> FALSE ]
  ELSE IF c.exists
  THEN [ ret |-> << >>, exc |-> "JSONDecodeError", cache |-> c, requested |-> FALSE ]
  ELSE IF net.kind # "json"
  THEN [ ret |-> << >>, exc |-> net.kind, cache |-> c, requested |-> TRUE ]
  ELSE LET stations == [ i \in 1 .. Len(net.catalog) |-> ToStation(Features(net)[i]) ]
       IN  [ ret |-> stations, exc |-> None,
             cache |-> JsonDump(stations), requested |-> TRUE ]

\* a variant of min() that keeps the last of several smallest elements
PyMinLast(keys) ==
  LET F[i \in 1 .. Len(keys)] ==
        IF i = 1 THEN 1
        ELSE IF keys[i] <= keys[F[i - 1]] THEN i ELSE F[i - 1]
  IN  F[Len(keys)]

\* min(iterable, key=...) on a non-empty iterable, given the keys: the index
\* of the element returned; an element replaces the best so far only when its
\* key is smaller
PyMin(keys) ==
  LET F[i \in 1 .. Len(keys)] ==
        IF i = 1 THEN 1
        ELSE IF keys[i] < keys[F[i - 1]] THEN i ELSE F[i - 1]
  IN  F[Len(keys)]

\* the keys of lines 282-285
Distances(stations, lat, lon) ==
  [ i \in 1 .. Len(stations) |->
      haversine(lat, lon, stations[i].lat, stations[i].lon) ]

\* get_nearest_radar(lat, lon): the value returned (None included) or the
\* exception raised, what it printed, and the effects of load_radar_stations
GetNearestRadar(lat, lon, c, net) ==
  LET r == LoadRadarStations(c, net)
      base == [ ret |-> None, exc |-> None, out |-> << >>,
                cache |-> r.cache, requested |-> r.requested ]
  IN  IF r.exc # None
      THEN IF IsInstance(r.exc, "RequestException")
           THEN [ base EXCEPT !.out = << "Error fetching radar stations" >> ]
           ELSE [ base EXCEPT !.exc = r.exc ]
      ELSE IF r.ret = << >>
      THEN [ base EXCEPT !.exc = "ValueError" ]
      ELSE [ base EXCEPT !.ret = r.ret[PyMin(Distances(r.ret, lat, lon))].id ]

-----------------------------------------------------------------------------
(* the four reports *)

\* a variant of Handlers in which get_alerts catches only RequestException
HandlersNarrow ==
  [ current   |-> << "HTTPError", "Exception" >>,
    forecasts |-> << "HTTPError", "Exception" >>,
    alerts    |-> << "RequestException" >>,
    radar     |-> << "HTTPError", "Exception" >> ]

\* the except clauses of each report function, in order
Handlers ==
  [ current   |-> << "HTTPError", "Exception" >>,
    forecasts |-> << "HTTPError", "Exception" >>,
    alerts    |-> << "Exception" >>,
    radar     |-> << "HTTPError", "Exception" >> ]

\* what each except clause prints
HandlerText ==
  [ current   |-> << "HTTP error fetching current weather",
                     "Error fetching current weather" >>,
    forecasts |-> << "HTTP error fetching forecasts", "Error fetching forecasts" >>,
    alerts    |-> << "Error fetching alerts" >>,
    radar     |-> << "HTTP error fetching radar", "Error fetching radar" >> ]

\* the first except clause of the report that matches exc, or 0
Clause(name, exc) ==
  LET match == { i \in 1 .. Len(Handlers[name]) : IsInstance(exc, Handlers[name][i]) }
  IN  IF match = { } THEN 0 ELSE CHOOSE i \in match : \A j \in match : i <= j

\* a report whose try body printed `printed` and then raised `raised` (or
\* ended, None): what it has printed when it returns, and the exception that
\* leaves it, if any
Report(name, printed, raised) ==
  IF raised = None THEN [ out |-> printed, propagated |-> None ]
  ELSE IF Clause(name, raised) = 0 THEN [ out |-> printed, propagated |-> raised ]
  ELSE [ out |-> Append(printed, HandlerText[name][Clause(name, raised)]),
         propagated |-> None ]

\* get_sun_times: it catches RequestException, KeyError and ValueError
SunTimes(sun) ==
  IF sun = None THEN [ out |-> << >>, exc |-> None ]
  ELSE IF \E cls \in {"RequestException", "KeyError", "ValueError"} : IsInstance(sun, cls)
  THEN [ out |-> << "Error fetching sun times" >>, exc |-> None ]
  ELSE [ out |-> << >>, exc |-> sun ]

\* get_current_weather: `raised` is what lines 96-122 raise, `sun` what the
\* body of get_sun_times raises
GetCurrentWeatherResult(raised, sun) ==
  IF raised # None THEN Report("current", << >>, raised)
  ELSE IF SunTimes(sun).exc # None
  THEN Report("current", SunTimes(sun).out, SunTimes(sun).exc)
  ELSE Report("current", SunTimes(sun).out \o << "=== Current Conditions ===" >>, None)

\* get_forecasts: the hourly table is printed before the daily forecast is
\* fetched
GetForecastsResult(raisedHourly, raisedDaily) ==
  IF raisedHourly # None THEN Report("forecasts", << >>, raisedHourly)
  ELSE IF raisedDaily # None
  THEN Report("forecasts", << "=== Next 12 Hours ===" >>, raisedDaily)
  ELSE Report("forecasts", << "=== Next 12 Hours ===", "=== 7-Day Forecast ===" >>, None)

\* get_alerts
GetAlertsResult(raised) ==
  IF raised # None THEN Report("alerts", << >>, raised)
  ELSE Report("alerts", << "=== Active Alerts ===" >>, None)

\* get_radar_image(lat, lon): `gif` is what the download of lines 294-299
\* raises
GetRadarImageResult(lat, lon, c, net, gif) ==
  LET n == GetNearestRadar(lat, lon, c, net)
      r == IF n.exc # None THEN Report("radar", n.out, n.exc)
           ELSE IF n.ret = None \/ n.ret = ""
           THEN Report("radar", Append(n.out, "Radar station not found."), None)
           ELSE IF gif # None THEN Report("radar", n.out, gif)
           ELSE Report("radar", Append(n.out, "Radar loop saved as radar.gif"), None)
  IN  [ out |-> r.out, propagated |-> r.propagated,
        station |-> IF n.exc = None /\ gif = None THEN n.ret ELSE None,
        cache |-> n.cache, requested |-> n.requested ]

-----------------------------------------------------------------------------
(* State before anything has run *)

NotAsked == [ kind |-> "NotAsked" ]
NoReply == [ kind |-> "NoReply", catalog |-> << >> ]
NoCall ==
  [ fn |-> "none", lat |-> 0, lon |-> 0, before |-> NoFile, net |-> NoReply,
    requested |-> FALSE, exc |-> None, stations |-> << >>, id |-> None,
    out |-> << >> ]

MoonStart(D) ==
  /\ date \in D
  /\ jd = 0
  /\ phase_index = 0
  /\ phase = None

MainStart(E) ==
  /\ env \in E
  /\ ipReply = NotAsked
  /\ ipCalls = 0
  /\ loc = << >>
  /\ locErr = << >>
  /\ pc = "start"
  /\ started = << >>
  /\ out = << >>
  /\ exitStatus = << >>

RadarStart(C) ==
  /\ cache \in C
  /\ requests = 0
  /\ calls = 0
  /\ last = NoCall
  /\ fetched = << >>

OneDate == { [ year |-> 2024, month |-> 1, day |-> 11 ] }
OneEnv == { [ LAT |-> None, LON |-> None, CITY |-> None, REGION |-> None ] }

-----------------------------------------------------------------------------
(* Actions of the radar functions *)

\* the effects of one call on the cache file and on the record of calls
RadarEffects(fn, lat, lon, net, r, exc, stations, id, printed) ==
  /\ cache' = r.cache
  /\ requests' = IF r.requested THEN requests + 1 ELSE requests
  /\ calls' = calls + 1
  /\ fetched' = IF r.requested /\ net.kind = "json" /\ fetched = << >>
                THEN << net.catalog >> ELSE fetched
  /\ last' = [ fn |-> fn, lat |-> lat, lon |-> lon, before |-> cache,
               net |-> IF r.requested THEN net ELSE NoReply,
               requested |-> r.requested, exc |-> exc, stations |-> stations,
               id |-> id, out |-> printed ]

\* the points the radar functions are called with: the site of two stations,
\* the site of another, a latitude out of range, and two points far from all
Targets ==
  { << 400, -750 >>, << 400, 910 >>, << 910, -750 >>, << -750, 1800 >>,
    << 1800, 400 >> }

\* the replies that can matter to a call: the network is asked only when the
\* cache file is absent
NetsFor(c) == IF c.exists THEN { NoReply } ELSE NetReplies

\* what the download of radar.gif raises (None: nothing); it is attempted only
\* when get_nearest_radar returned a station
GifFailures == { None, "HTTPError", "ConnectionError", "OSError" }
GifsFor(lat, lon, c, net) ==
  LET n == GetNearestRadar(lat, lon, c, net)
  IN  IF n.exc = None /\ n.ret # None THEN GifFailures ELSE { None }

\* a call of load_radar_stations()
CallLoadRadarStations ==
  /\ calls < MaxCalls
  /\ \E net \in NetsFor(cache) :
       LET r == LoadRadarStations(cache, net)
       IN  RadarEffects("load_radar_stations", 0, 0, net, r, r.exc, r.ret, None, << >>)
  /\ UNCHANGED << moonVars, mainVars >>

\* a call of get_nearest_radar(lat, lon)
CallGetNearestRadar ==
  /\ calls < MaxCalls
  /\ \E t \in Targets, net \in NetsFor(cache) :
       LET r == GetNearestRadar(t[1], t[2], cache, net)
       IN  RadarEffects("get_nearest_radar", t[1], t[2], net, r, r.exc, << >>,
                        r.ret, r.out)
  /\ UNCHANGED << moonVars, mainVars >>

\* a call of get_radar_image(lat, lon)
CallGetRadarImage ==
  /\ calls < MaxCalls
  /\ \E t \in Targets, net \in NetsFor(cache) :
       \E gif \in GifsFor(t[1], t[2], cache, net) :
         LET r == GetRadarImageResult(t[1], t[2], cache, net, gif)
         IN  RadarEffects("get_radar_image", t[1], t[2], net, r, r.propagated,
                          << >>, r.station, r.out)
  /\ UNCHANGED << moonVars, mainVars >>

-----------------------------------------------------------------------------
(* Actions of the main block *)

\* line 315 and the except clause of line 316
GetLocation ==
  /\ pc = "start"
  /\ \E reply \in IpReplies :
       LET r == GetLocationResult(env, reply)
       IN  /\ loc' = r.ret
           /\ locErr' = r.exc
           /\ ipCalls' = r.ipCalls
           /\ ipReply' = IF r.ipCalls > 0 THEN reply ELSE ipReply
           /\ pc' = IF r.exc = << >> THEN "located"
                    ELSE IF IsInstance(r.exc[1].cls, "RuntimeError") THEN "failed"
                    ELSE "crashed"
  /\ UNCHANGED << env, started, out, exitStatus, moonVars, radarVars >>

\* lines 317-318
ExitOnError ==
  /\ pc = "failed"
  /\ out' = Append(out, locErr[1].text)
  /\ exitStatus' = << 1 >>
  /\ pc' = "exit"
  /\ UNCHANGED << env, ipReply, ipCalls, loc, locErr, started, moonVars, radarVars >>

\* lines 319-323
PrintLocation ==
  /\ pc = "located"
  /\ out' = Append(out, "Location detected")
  /\ pc' = "current"
  /\ UNCHANGED << env, ipReply, ipCalls, loc, locErr, started, exitStatus,
                  moonVars, radarVars >>

\* a report has returned, or an exception has left it
AfterReport(name, r, next) ==
  /\ started' = Append(started, name)
  /\ out' = out \o r.out
  /\ pc' = IF r.propagated = None THEN next ELSE "crashed"
  /\ exitStatus' = IF r.propagated # None THEN << 1 >>
                   ELSE IF next = "done" THEN << 0 >> ELSE exitStatus
  /\ UNCHANGED << env, ipReply, ipCalls, loc, locErr, moonVars >>

\* what the try body of a report raises (None: nothing)
BodyFailures == { None, "HTTPError", "KeyError" }

\* line 324
GetCurrentWeather ==
  /\ pc = "current"
  /\ \E raised \in BodyFailures \cup {"RuntimeError"},
        sun \in { None, "ValueError", "TypeError" } :
       AfterReport("current", GetCurrentWeatherResult(raised, sun), "forecasts")
  /\ UNCHANGED radarVars

\* line 325
GetForecasts ==
  /\ pc = "forecasts"
  /\ \E hourly \in BodyFailures, daily \in BodyFailures :
       AfterReport("forecasts", GetForecastsResult(hourly, daily), "alerts")
  /\ UNCHANGED radarVars

\* line 326
GetAlerts ==
  /\ pc = "alerts"
  /\ \E raised \in BodyFailures :
       AfterReport("alerts", GetAlertsResult(raised), "radar")
  /\ UNCHANGED radarVars

\* line 327
GetRadarImage ==
  /\ pc = "radar"
  /\ \E net \in NetsFor(cache) :
       \E gif \in GifsFor(loc[1][1], loc[1][2], cache, net) :
         LET r == GetRadarImageResult(loc[1][1], loc[1][2], cache, net, gif)
         IN  /\ AfterReport("radar", r, "done")
             /\ RadarEffects("get_radar_image", loc[1][1], loc[1][2], net, r,
                             r.propagated, << >>, r.station, r.out)

-----------------------------------------------------------------------------
(* Specifications *)

\* moon_phase on every date of Dates
InitMoon == MoonStart(Dates) /\ MainStart(OneEnv) /\ RadarStart({NoFile})
NextMoon == MoonPhase
SpecMoon == InitMoon /\ [][NextMoon]_vars

\* get_location on every environment of Envs and every reply of IpReplies
InitLoc == MoonStart(OneDate) /\ MainStart(Envs) /\ RadarStart({NoFile})
NextLoc == GetLocation
SpecLoc == InitLoc /\ [][NextLoc]_vars

\* one run of the program
MainEnvs ==
  [ LAT : {None, "abc", "40.0", "91"}, LON : {None, "-75.0"},
    CITY : {None}, REGION : {"Pennsylvania"} ]
MainCaches == { NoFile, JsonDump(<< >>) } \cup { JsonDump(<< st >>) : st \in StationPool }

InitMain == MoonStart(OneDate) /\ MainStart(MainEnvs) /\ RadarStart(MainCaches)
NextMain ==
  \/ GetLocation
  \/ ExitOnError
  \/ PrintLocation
  \/ GetCurrentWeather
  \/ GetForecasts
  \/ GetAlerts
  \/ GetRadarImage
SpecMain == InitMain /\ [][NextMain]_vars

\* calls of the radar functions, from every state of the cache file
InitRadar == MoonStart(OneDate) /\ MainStart(OneEnv) /\ RadarStart(CacheFiles)
NextRadar ==
  \/ CallLoadRadarStations
  \/ CallGetNearestRadar
  \/ CallGetRadarImage
SpecRadar == InitRadar /\ [][NextRadar]_vars

Init == InitMain
Next == NextMain
Spec == SpecMain

-----------------------------------------------------------------------------
(* Properties of get_location (SpecLoc) *)

Returned == pc # "start"
BothSupplied == Truthy(env.LAT) /\ Truthy(env.LON)
BothParse == Parses(env.LAT) /\ Parses(env.LON)

\* C1: when LAT and LON are both supplied and one of them does not parse as a
\* float, get_location raises the invalid-override error, which carries the
\* ValueError of the first value that failed to parse, and ipinfo.io is not
\* asked.
C1_MalformedOverrideNoFallback ==
  (Returned /\ BothSupplied /\ ~BothParse) =>
    /\ loc = << >>
    /\ Len(locErr) = 1
    /\ locErr[1].cls = "RuntimeError"
    /\ locErr[1].text = InvalidText
    /\ locErr[1].cause.cls = "ValueError"
    /\ locErr[1].cause.arg = (IF Parses(env.LAT) THEN env.LON ELSE env.LAT)
    /\ ipCalls = 0
    /\ ipReply = NotAsked

C1_Witness ==
  /\ pc = "failed"
  /\ env.LAT = "abc"
  /\ env.LON = "-75.0"
  /\ locErr[1].cause.arg = "abc"
  /\ ipCalls = 0

\* C2: when LAT and LON are both supplied and both parse, get_location returns
\* the two parsed values with the CITY and REGION overrides, and ipinfo.io is
\* not asked.
C2_OverrideReturned ==
  (Returned /\ BothSupplied /\ BothParse) =>
    /\ locErr = << >>
    /\ loc = << << FloatValue[env.LAT], FloatValue[env.LON], env.CITY, env.REGION >> >>
    /\ ipCalls = 0
    /\ ipReply = NotAsked

C2_Witness ==
  /\ pc = "located"
  /\ env.LAT = "40.0"
  /\ env.LON = "-75.0"
  /\ env.CITY = "Philadelphia"
  /\ loc = << << 400, -750, "Philadelphia", env.REGION >> >>
  /\ ipCalls = 0

\* the replies on which the lookup succeeds: a JSON object whose "loc" is two
\* floats separated by one comma
GoodReply(reply) ==
  /\ reply.kind = "json"
  /\ "loc" \in reply.data.keys
  /\ reply.data.loc.type = "str"
  /\ reply.data.loc.toks \in { << a, ",", b >> : a, b \in DOMAIN FloatValue }

\* the kind of an error, as a caller can select on it in an except clause
ErrorKind(e) == e.cls

\* the error get_location raises for a malformed override
InvalidOverrideError ==
  OverrideBranch([ LAT |-> "abc", LON |-> "abc", CITY |-> None, REGION |-> None ]).exc[1]

\* C3: when LAT and LON are not both supplied, ipinfo.io is asked exactly
\* once, and if the lookup fails in any way get_location raises the
\* location-detection error wrapping the cause, an error of a kind distinct
\* from that of the invalid-override error.
C3_LookupOnceDistinctError ==
  (Returned /\ ~BothSupplied) =>
    /\ ipCalls = 1
    /\ ipReply # NotAsked
    /\ ~GoodReply(ipReply) =>
         /\ loc = << >>
         /\ Len(locErr) = 1
         /\ locErr[1].text = DetectText
         /\ locErr[1].cause.cls # None
         /\ ErrorKind(locErr[1]) # ErrorKind(InvalidOverrideError)

\* C8: every point get_location returns has its latitude in [-90, 90] and its
\* longitude in [-180, 180].
C8_PointInRange ==
  loc # << >> =>
    /\ loc[1][1] >= -900 /\ loc[1][1] <= 900
    /\ loc[1][2] >= -1800 /\ loc[1][2] <= 1800

-----------------------------------------------------------------------------
(* Properties of the main block (SpecMain) *)

AllReports == << "current", "forecasts", "alerts", "radar" >>

\* the number of reports started when the program is at pc
StartedAt ==
  [ start |-> 0, located |-> 0, failed |-> 0, exit |-> 0, current |-> 0,
    forecasts |-> 1, alerts |-> 2, radar |-> 3, done |-> 4 ]

Range(q) == { q[i] : i \in 1 .. Len(q) }

\* C9: the reports are started only after location resolution succeeded; when
\* it fails the program prints the error and exits with status 1 with no
\* report started; when it succeeds the four reports are started once each,
\* in the order current, forecasts, alerts, radar, and no exception of class
\* Exception raised inside a report leaves the report, so the later reports
\* are started.
C9_ReportsSequenced ==
  /\ pc \in DOMAIN StartedAt
  /\ Len(started) = StartedAt[pc]
  /\ started = SubSeq(AllReports, 1, Len(started))
  /\ started # << >> => (loc # << >> /\ locErr = << >>)
  /\ locErr # << >> => (pc \in {"failed", "exit"} /\ loc = << >>)
  /\ loc # << >> => pc \notin {"start", "failed", "exit"}
  /\ pc = "exit" => (exitStatus = << 1 >> /\ out = << locErr[1].text >>)
  /\ pc = "done" => exitStatus = << 0 >>

C9_Witness ==
  /\ pc = "done"
  /\ started = AllReports
  /\ "HTTP error fetching current weather" \in Range(out)
  /\ "Error fetching forecasts" \in Range(out)
  /\ "Error fetching alerts" \in Range(out)

-----------------------------------------------------------------------------
(* Properties of the radar functions (SpecRadar) *)

HasCatalog(c) == c.exists /\ c.json

\* C4: get_nearest_radar never returns None in place of a station; on a
\* catalog with no station it raises, and get_radar_image does not turn that
\* failure into its generic radar message.
C4_EmptyCatalogSurfaced ==
  /\ last.fn = "get_nearest_radar" => ~(last.exc = None /\ last.id = None)
  /\ (last.fn = "get_nearest_radar" /\ HasCatalog(cache) /\ cache.doc = << >>) =>
       last.exc # None
  /\ (last.fn = "get_radar_image" /\ HasCatalog(cache) /\ cache.doc = << >>) =>
       "Error fetching radar" \notin Range(last.out)

\* C5: on a non-empty catalog get_nearest_radar returns the id of a station
\* no farther from the target than any station of the catalog, the first such
\* station in catalog order.
C5_NearestFirstMinimal ==
  (last.fn = "get_nearest_radar" /\ HasCatalog(cache) /\ cache.doc # << >>) =>
    /\ last.exc = None
    /\ LET cat == cache.doc
           d == Distances(cat, last.lat, last.lon)
       IN  \E i \in 1 .. Len(cat) :
             /\ cat[i].id = last.id
             /\ \A j \in 1 .. Len(cat) : d[i] <= d[j]
             /\ \A j \in 1 .. (i - 1) : d[j] > d[i]

C5_Witness ==
  /\ last.fn = "get_nearest_radar"
  /\ Len(cache.doc) = 2
  /\ cache.doc[1].id = "TPHL"
  /\ cache.doc[2].id = "KDIX"
  /\ last.lat = 400 /\ last.lon = -750
  /\ haversine(last.lat, last.lon, cache.doc[2].lat, cache.doc[2].lon) = 0
  /\ last.id = "TPHL"

\* C10: a call asks the network for the catalog exactly when the cache file is
\* absent at its start; a failed fetch writes nothing; a successful fetch
\* writes exactly the fetched catalog; and after a successful fetch the cache
\* keeps that catalog, which every later call returns without asking the
\* network.
C10_CacheRefreshedOnlyWhenAbsent ==
  /\ last.fn # "none" => (last.requested <=> ~last.before.exists)
  /\ (last.requested /\ last.net.kind # "json") => cache = NoFile
  /\ (last.requested /\ last.net.kind = "json") =>
       /\ cache = JsonDump(last.net.catalog)
       /\ last.fn = "load_radar_stations" =>
            (last.exc = None /\ last.stations = last.net.catalog)
  /\ (last.fn # "none" /\ ~last.requested) => cache = last.before
  /\ fetched # << >> =>
       /\ cache = JsonDump(fetched[1])
       /\ last.requested \/ last.before = JsonDump(fetched[1])
       /\ (~last.requested /\ last.fn = "load_radar_stations") =>
            (last.exc = None /\ last.stations = fetched[1])

C10_Witness ==
  /\ calls = 3
  /\ requests = 2
  /\ fetched # << >>
  /\ fetched[1] # << >>
  /\ last.fn = "load_radar_stations"
  /\ ~last.requested
  /\ last.stations = fetched[1]

-----------------------------------------------------------------------------
(* Properties of moon_phase (SpecMoon) *)

\* the algorithm of the specification: the fraction is jd - floor(jd), the
\* index round(8 * fraction) is wrapped to 0 only when it is 8
FloorFrac(d) == JdNum(d) - (JdNum(d) \div JdDen) * JdDen

FloorPhaseIndex(d) ==
  LET i == Round(8 * FloorFrac(d), JdDen)
  IN  IF i = 8 THEN 0 ELSE i

FloorPhaseName(d) == phases[FloorPhaseIndex(d) + 1]

NewMoonDates ==
  { [ year |-> 2024, month |-> 1, day |-> 11 ],
    [ year |-> 2024, month |-> 2, day |-> 9 ],
    [ year |-> 2024, month |-> 2, day |-> 10 ] }

\* C6: moon_phase returns "New Moon", with phase index 0, on 2024-01-11 and
\* on the dates 29 and 30 days later, 2024-02-09 and 2024-02-10.
C6_NewMoonDates ==
  (phase # None /\ date \in NewMoonDates) =>
    (phase = "New Moon" /\ phase_index = 0)

\* C7 as stated: for every date the fraction is in [0,1), the index that
\* selects the name is in 0..7, and the name is the one the algorithm of the
\* specification yields.
C7_IndexAlwaysInRange ==
  phase # None =>
    /\ jd >= 0 /\ jd < JdDen
    /\ phase_index \in 0 .. 7
    /\ phase_index = FloorPhaseIndex(date)
    /\ phase = FloorPhaseName(date)

\* C7 as amended: for every date moon_phase returns the name the algorithm of
\* the specification yields.  When jd is not negative the fraction is in
\* [0,1) and the index is the specification's, in 0..7.  When jd is negative
\* int() truncates toward zero: the fraction is in (-1,0], the index is in
\* -8..0 and is the specification's index or that index minus 8, and the name
\* is selected by counting from the end of the list.
C7_NameAgreesIndexMayBeNegative ==
  phase # None =>
    /\ phase = FloorPhaseName(date)
    /\ JdNum(date) >= 0 =>
         /\ jd >= 0 /\ jd < JdDen
         /\ phase_index \in 0 .. 7
         /\ phase_index = FloorPhaseIndex(date)
    /\ JdNum(date) < 0 =>
         /\ jd > -JdDen /\ jd <= 0
         /\ phase_index \in -8 .. 0
         /\ phase_index \in { FloorPhaseIndex(date), FloorPhaseIndex(date) - 8 }

C7_Witness ==
  /\ phase # None
  /\ JdNum(date) < 0
  /\ jd < 0
  /\ phase_index = -3
  /\ phase = "Waning Gibbous"

=============================================================================
